---- MODULE Spec2Model ----
(***************************************************************************)
(* Model of the order book aggregator: the merge engine                    *)
(* (src/src/order_book.rs), the exchange connectors                        *)
(* (src/src/exchanges/binance.rs, bitstamp.rs) and the consumer loop       *)
(* (src/src/main.rs).                                                      *)
(*                                                                         *)
(* A Decimal is modelled as an integer number of units of 10^-DecScale.    *)
(* An Option<T> is modelled as a sequence: << >> is None, <<v>> is Some(v).*)
(***************************************************************************)
EXTENDS Integers, Sequences, FiniteSets, TLC

\* ---------------------------------------------------------------- bounds
\* Prices delivered to the merge engine range over 1..MaxPrice units.
MaxPrice == 2
\* An update carries at most MaxLevels price levels (bids and asks together).
MaxLevels == 3
\* The merge engine on its own is built by MergedOrderBook::new(TopN).
TopN == 2
\* A Decimal is a whole number of units of 10^-DecScale.
DecScale == 3
\* The fan-in channel of the model holds at most ChannelCapacity updates
\* (mpsc::channel(64) in main; the model scales the capacity down).
ChannelCapacity == 2
\* Each connector pushes at most MaxPushes updates in a run of the model.
MaxPushes == 2

\* A result handed to normalize on its own has at most MaxEntries asks and
\* MaxEntries bids.
MaxEntries == 2
\* normalize on its own is called with decimal-place counts in 0..MaxPlaces.
MaxPlaces == 4
\* normalize on its own is called at most MaxCalls times on a result.
MaxCalls == 2

\* ------------------------------------------------------ program constants
\* timeout(Duration::from_secs(15), client.next())
IdleTimeout == 15
\* sleep(Duration::from_secs(2))
Backoff == 2
\* MergedOrderBook::new(10) in main
MainTopN == 10
\* result.normalize(2, 4, 3) in main
PricePlaces == 2
AmountPlaces == 4
SpreadPlaces == 3

Exchanges == {"binance", "bitstamp"}

VARIABLES
    top_n,          \* MergedOrderBook.top_n
    latest_bids,    \* MergedOrderBook.latest_bids: exchange -> Vec<Bid>
    latest_asks,    \* MergedOrderBook.latest_asks: exchange -> Vec<Ask>
    bids_iter,      \* iteration order of the latest_bids HashMap
    asks_iter,      \* iteration order of the latest_asks HashMap
    result,         \* the UpdateResult returned by the last call of update
    all_bids,       \* all_bids of the last call of update_bids, before the sort
    all_asks,       \* all_asks of the last call of update_asks, before the sort
    delivered,      \* history: per exchange, the last update passed to update
    replaced,       \* history: the last call of update replaced a different stored list
    pc,             \* per connector: where its task is
    timer,          \* per connector: seconds spent in the current wait
    pending,        \* per connector: the update its suspended send holds
    failed_on,      \* history: per connector, the text whose decoding ended the attempt
    subscribed,     \* history: per connector, the subscribe message was sent in this attempt
    channel,        \* the fan-in channel: updates sent and not yet received
    pushed,         \* history: per connector, the number of completed sends
    consumed,       \* history: per connector, the number of its updates received by main
    emitted,        \* history: the number of results printed by main
    output,         \* the last result printed by main
    places          \* history: the decimal-place counts of the calls of normalize on the result

engine_vars ==
    <<top_n, latest_bids, latest_asks, bids_iter, asks_iter, result, all_bids, all_asks,
      delivered, replaced>>
conn_vars == <<pc, timer, pending, failed_on, subscribed>>
main_vars == <<consumed, emitted, output, places>>
vars == <<engine_vars, conn_vars, channel, pushed, main_vars>>

\* ------------------------------------------------------------ sequences
Min(a, b) == IF a < b THEN a ELSE b

Range(s) == {s[i] : i \in 1..Len(s)}

\* Iterator::take(n)
Take(s, n) == SubSeq(s, 1, Min(n, Len(s)))

\* All orderings of the elements of a finite set.
Orderings(S) ==
    {s \in [1..Cardinality(S) -> S] : \A i, j \in 1..Cardinality(S) : s[i] = s[j] => i = j}

\* ------------------------------------------------------------- HashMap
EmptyMap == [e \in {} |-> << >>]

\* Mutant of HashMapInsert: the new list is appended to the stored one.
HashMapInsert_extend(map, k, v) ==
    [e \in (DOMAIN map) \cup {k} |->
        IF e # k THEN map[e] ELSE IF k \in DOMAIN map THEN map[k] \o v ELSE v]

\* Mutant of HashMapInsert: the new list is stored under every key of the map.
HashMapInsert_all(map, k, v) == [e \in (DOMAIN map) \cup {k} |-> v]

\* HashMap::insert: the value of an existing key is replaced.
HashMapInsert(map, k, v) ==
    [e \in (DOMAIN map) \cup {k} |-> IF e = k THEN v ELSE map[e]]

\* The iteration order of a HashMap is unspecified. It stays what it is while
\* no key is added; adding a key may give any order of the keys.
IterOrders(iter, k) ==
    IF k \in Range(iter) THEN {iter} ELSE Orderings(Range(iter) \cup {k})

\* ------------------------------------------------------ the merge engine
\* Vec::sort_by is a stable sort: insertion after the elements that do not
\* compare Greater.
\* all_bids.sort_by(|a, b| b.price.cmp(&a.price)): descending by price
BidGreater(a, b) == b.price > a.price
\* all_asks.sort_by(|a, b| a.price.cmp(&b.price)): ascending by price
AskGreater(a, b) == a.price > b.price

\* The comparator of a side: does a sort after b?
Greater(side, a, b) == IF side = "bids" THEN BidGreater(a, b) ELSE AskGreater(a, b)

\* Mutant of InsertBy: an unstable sort, an element goes before its equals.
RECURSIVE InsertBy_before(_, _, _)
InsertBy_before(x, s, side) ==
    IF s = << >> THEN <<x>>
    ELSE IF ~Greater(side, x, Head(s)) THEN <<x>> \o s
    ELSE <<Head(s)>> \o InsertBy_before(x, Tail(s), side)

RECURSIVE InsertBy(_, _, _)
InsertBy(x, s, side) ==
    IF s = << >> THEN <<x>>
    ELSE IF Greater(side, Head(s), x) THEN <<x>> \o s
    ELSE <<Head(s)>> \o InsertBy(x, Tail(s), side)

\* Mutant of SortBy: the working list is left in the order of collection.
SortBy_unsorted(s, side) == s

RECURSIVE SortBy(_, _)
SortBy(s, side) ==
    IF s = << >> THEN << >>
    ELSE InsertBy(s[Len(s)], SortBy(SubSeq(s, 1, Len(s) - 1), side), side)

\* Mutant of Tagged: the price and the amount of a level change places.
Tagged_swapped(exchange, levels) ==
    [i \in 1..Len(levels) |->
        [exchange |-> exchange, price |-> levels[i].amount, amount |-> levels[i].price]]

\* .map(|b| ExchangeBid { exchange, price, amount })
Tagged(exchange, levels) ==
    [i \in 1..Len(levels) |->
        [exchange |-> exchange, price |-> levels[i].price, amount |-> levels[i].amount]]

\* Mutant of Collect: the whole list of each exchange goes to the working list.
RECURSIVE Collect_uncapped(_, _, _)
Collect_uncapped(map, iter, n) ==
    IF iter = << >> THEN << >>
    ELSE Tagged(Head(iter), map[Head(iter)]) \o Collect_uncapped(map, Tail(iter), n)

\* The loop over the map: each exchange's list, tagged, cut to top_n, appended
\* to the working list in the map's iteration order.
RECURSIVE Collect(_, _, _)
Collect(map, iter, n) ==
    IF iter = << >> THEN << >>
    ELSE Take(Tagged(Head(iter), map[Head(iter)]), n) \o Collect(map, Tail(iter), n)

\* Mutant of update_bids: the working list is cut to top_n before the sort.
update_bids_cut(latest, iter, exchange, bids, n) ==
    LET m == HashMapInsert(latest, exchange, bids)
        Cut(all) == [latest |-> m, all |-> all, top |-> SortBy(Take(all, n), "bids")]
    IN  Cut(Collect(m, iter, n))

update_bids(latest, iter, exchange, bids, n) ==
    LET m == HashMapInsert(latest, exchange, bids)
        Cut(all) == [latest |-> m, all |-> all, top |-> Take(SortBy(all, "bids"), n)]
    IN  Cut(Collect(m, iter, n))

update_asks(latest, iter, exchange, asks, n) ==
    LET m == HashMapInsert(latest, exchange, asks)
        Cut(all) == [latest |-> m, all |-> all, top |-> Take(SortBy(all, "asks"), n)]
    IN  Cut(Collect(m, iter, n))

\* Mutant of Spread: a crossed book gives no spread.
Spread_uncrossed(top_asks, top_bids) ==
    IF top_asks = << >> \/ top_bids = << >> THEN << >>
    ELSE IF top_asks[1].price < top_bids[1].price THEN << >>
    ELSE <<top_asks[1].price - top_bids[1].price>>

\* top_asks.first().and_then(|ask| top_bids.first().map(|bid| ask.price - bid.price))
Spread(top_asks, top_bids) ==
    IF top_asks = << >> THEN << >>
    ELSE IF top_bids = << >> THEN << >>
    ELSE <<top_asks[1].price - top_bids[1].price>>

UpdateResult(top_asks, top_bids) ==
    [asks |-> top_asks, bids |-> top_bids, spread |-> Spread(top_asks, top_bids)]

\* MergedOrderBook::update, given the iteration orders of the two maps after
\* the insertions: update_asks, then update_bids, then the spread.
MergedUpdate(lasks, lbids, ai, bi, n, u) ==
    LET Build(a, b) ==
            [latest_asks |-> a.latest,
             latest_bids |-> b.latest,
             all_asks |-> a.all,
             all_bids |-> b.all,
             result |-> UpdateResult(a.top, b.top)]
    IN  Build(update_asks(lasks, ai, u.exchange, u.asks, n),
              update_bids(lbids, bi, u.exchange, u.bids, n))

\* ------------------------------------------------------------- decimals
RECURSIVE Pow10(_)
Pow10(n) == IF n <= 0 THEN 1 ELSE 10 * Pow10(n - 1)

Abs(x) == IF x < 0 THEN -x ELSE x

\* Mutant of normalize_decimal: the value is always taken to the next multiple
\* of the unit above it in magnitude, also when it is one already.
normalize_decimal_next(value, decimal_places) ==
    IF decimal_places >= DecScale THEN value
    ELSE LET unit == Pow10(DecScale - decimal_places)
             m == (Abs(value) \div unit + 1) * unit
         IN  IF value < 0 THEN -m ELSE m

\* Mutant of normalize_decimal: a midpoint goes away from zero (round half up).
normalize_decimal_halfup(value, decimal_places) ==
    IF decimal_places >= DecScale THEN value
    ELSE LET unit == Pow10(DecScale - decimal_places)
             q == Abs(value) \div unit
             r == Abs(value) % unit
             m == (IF 2 * r >= unit THEN q + 1 ELSE q) * unit
         IN  IF value < 0 THEN -m ELSE m

\* Decimal::round_dp: to dp fractional digits, a midpoint going to the even
\* neighbour; a value of at most dp fractional digits is returned as it is.
normalize_decimal(value, decimal_places) ==
    IF decimal_places >= DecScale THEN value
    ELSE LET unit == Pow10(DecScale - decimal_places)
             q == Abs(value) \div unit
             r == Abs(value) % unit
             up == (2 * r > unit) \/ (2 * r = unit /\ q % 2 = 1)
             m == (IF up THEN q + 1 ELSE q) * unit
         IN  IF value < 0 THEN -m ELSE m

\* Mutant of normalize: entries whose amount rounds to zero are removed.
normalize_nonzero(res, price_decimal_places, amount_decimal_places, spread_decimal_places) ==
    LET Entry(x) ==
            [exchange |-> x.exchange,
             price |-> normalize_decimal(x.price, price_decimal_places),
             amount |-> normalize_decimal(x.amount, amount_decimal_places)]
        NonZero(x) == x.amount # 0
    IN  [asks |-> SelectSeq([i \in 1..Len(res.asks) |-> Entry(res.asks[i])], NonZero),
         bids |-> SelectSeq([i \in 1..Len(res.bids) |-> Entry(res.bids[i])], NonZero),
         spread |-> IF res.spread = << >> THEN << >>
                    ELSE <<normalize_decimal(res.spread[1], spread_decimal_places)>>]

\* UpdateResult::normalize
normalize(res, price_decimal_places, amount_decimal_places, spread_decimal_places) ==
    LET Entry(x) ==
            [exchange |-> x.exchange,
             price |-> normalize_decimal(x.price, price_decimal_places),
             amount |-> normalize_decimal(x.amount, amount_decimal_places)]
    IN  [asks |-> [i \in 1..Len(res.asks) |-> Entry(res.asks[i])],
         bids |-> [i \in 1..Len(res.bids) |-> Entry(res.bids[i])],
         spread |-> IF res.spread = << >> THEN << >>
                    ELSE <<normalize_decimal(res.spread[1], spread_decimal_places)>>]

\* A text is a sequence of characters.
Digits == <<"0", "1", "2", "3", "4", "5", "6", "7", "8", "9">>

IsDigit(ch) == \E d \in 1..10 : Digits[d] = ch

DigitVal(ch) == (CHOOSE d \in 1..10 : Digits[d] = ch) - 1

RECURSIVE Mantissa(_)
Mantissa(text) ==
    IF text = << >> THEN 0
    ELSE LET last == text[Len(text)]
             rest == Mantissa(SubSeq(text, 1, Len(text) - 1))
         IN  IF last = "." THEN rest ELSE 10 * rest + DigitVal(last)

\* Decimal::from_str: an optional sign, then digits with at most one point.
\* A Result is modelled as a sequence: << >> is Err, <<v>> is Ok(v).
from_str(text) ==
    LET signed == text # << >> /\ text[1] \in {"-", "+"}
        body == IF signed THEN Tail(text) ELSE text
        points == {i \in 1..Len(body) : body[i] = "."}
        wellformed ==
            /\ \A i \in 1..Len(body) : IsDigit(body[i]) \/ body[i] = "."
            /\ \E i \in 1..Len(body) : IsDigit(body[i])
            /\ Cardinality(points) <= 1
        fraction == IF points = {} THEN 0 ELSE Len(body) - (CHOOSE i \in points : TRUE)
        units == Mantissa(body) * Pow10(DecScale - fraction)
    IN  IF ~wellformed THEN << >>
        ELSE IF signed /\ text[1] = "-" THEN <<-units>> ELSE <<units>>

\* Mutant of ParseLevels: a level that does not parse is left out.
ParseLevels_skip(levels) ==
    LET good == SelectSeq(levels, LAMBDA l : from_str(l[1]) # << >> /\ from_str(l[2]) # << >>)
    IN  <<[i \in 1..Len(good) |->
             [price |-> from_str(good[i][1])[1], amount |-> from_str(good[i][2])[1]]]>>

\* The map over the levels of one side and its collect::<Result<Vec<_>>>()?:
\* the first Err is the result.
ParseLevels(levels) ==
    LET parsed == [i \in 1..Len(levels) |->
                      [price |-> from_str(levels[i][1]), amount |-> from_str(levels[i][2])]]
    IN  IF \E i \in 1..Len(levels) : parsed[i].price = << >> \/ parsed[i].amount = << >>
        THEN << >>
        ELSE <<[i \in 1..Len(levels) |->
                  [price |-> parsed[i].price[1], amount |-> parsed[i].amount[1]]]>>

parse_data(bids, asks, exchange) ==
    LET Build(b, a) ==
            IF b = << >> \/ a = << >> THEN << >>
            ELSE <<[exchange |-> exchange, bids |-> b[1], asks |-> a[1]]>>
    IN  Build(ParseLevels(bids), ParseLevels(asks))

\* ---------------------------------------------------------------- inputs
\* A price level list: any prices, in any order; the amount of a level is its
\* position in the list, which tells the levels of one list apart.
LevelLists ==
    UNION {[1..n -> 1..MaxPrice] : n \in 0..MaxLevels}

Levels(prices) == [i \in 1..Len(prices) |-> [price |-> prices[i], amount |-> i]]

Updates ==
    {[exchange |-> e, bids |-> Levels(p[1]), asks |-> Levels(p[2])] :
        e \in Exchanges,
        p \in {q \in LevelLists \X LevelLists : Len(q[1]) + Len(q[2]) <= MaxLevels}}

\* The text messages a connection delivers: data messages (in the schema of
\* the exchange), the subscription acknowledgment, and text that is no message
\* of the schema.
WireLevel(price, amount) == <<price, amount>>

DataMessages ==
    {[kind |-> "data",
      bids |-> <<WireLevel(<<"1", ".", "0", "0", "5">>, <<"1">>)>>,
      asks |-> <<WireLevel(<<"2">>, <<"1">>)>>],
     [kind |-> "data",
      bids |-> <<WireLevel(<<"2">>, <<"1">>)>>,
      asks |-> << >>],
     [kind |-> "data",
      bids |-> <<WireLevel(<<"2">>, <<"1">>)>>,
      asks |-> <<WireLevel(<<"x">>, <<"1">>)>>],
     [kind |-> "data",
      bids |-> <<WireLevel(<<"2">>, <<"1">>), WireLevel(<<"1">>, << >>)>>,
      asks |-> << >>]}

OtherMessages ==
    {[kind |-> "subscription_succeeded", bids |-> << >>, asks |-> << >>],
     [kind |-> "unknown", bids |-> << >>, asks |-> << >>]}

TextMessages == DataMessages \cup OtherMessages

NoResult == [asks |-> << >>, bids |-> << >>, spread |-> << >>]

\* ------------------------------------------------- the engine on its own
ConnInit ==
    /\ pc = [c \in Exchanges |-> "connect"]
    /\ timer = [c \in Exchanges |-> 0]
    /\ pending = [c \in Exchanges |-> << >>]
    /\ failed_on = [c \in Exchanges |-> << >>]
    /\ subscribed = [c \in Exchanges |-> FALSE]
    /\ channel = << >>
    /\ pushed = [c \in Exchanges |-> 0]
    /\ consumed = [c \in Exchanges |-> 0]
    /\ emitted = 0
    /\ output = NoResult
    /\ places = << >>

EngineInit ==
    /\ latest_bids = EmptyMap
    /\ latest_asks = EmptyMap
    /\ bids_iter = << >>
    /\ asks_iter = << >>
    /\ result = NoResult
    /\ all_bids = << >>
    /\ all_asks = << >>
    /\ delivered = [e \in Exchanges |-> << >>]
    /\ replaced = FALSE

\* MergedOrderBook::new(TopN), and no task started.
Init ==
    /\ top_n = TopN
    /\ EngineInit
    /\ ConnInit

\* The effect of order_book.update(u) on the engine.
Merge(u) ==
    \E ai \in IterOrders(asks_iter, u.exchange), bi \in IterOrders(bids_iter, u.exchange) :
        \E r \in {MergedUpdate(latest_asks, latest_bids, ai, bi, top_n, u)} :
            /\ latest_asks' = r.latest_asks
            /\ latest_bids' = r.latest_bids
            /\ asks_iter' = ai
            /\ bids_iter' = bi
            /\ result' = r.result
            /\ all_asks' = r.all_asks
            /\ all_bids' = r.all_bids
            /\ delivered' = [delivered EXCEPT ![u.exchange] = <<u>>]
            /\ replaced' = /\ u.exchange \in DOMAIN latest_bids
                           /\ \/ latest_bids[u.exchange] # u.bids
                              \/ latest_asks[u.exchange] # u.asks
            /\ UNCHANGED top_n

\* A call of MergedOrderBook::update, as the unit tests make it.
Update(u) ==
    /\ Merge(u)
    /\ UNCHANGED <<conn_vars, channel, pushed, main_vars>>

Next == \E u \in Updates : Update(u)

Spec == Init /\ [][Next]_vars

\* ======================================================================
\* Properties of the merge engine (checked under Spec)
\* ======================================================================
NonIncreasing(entries) ==
    \A i \in 1..(Len(entries) - 1) : entries[i].price >= entries[i + 1].price

NonDecreasing(entries) ==
    \A i \in 1..(Len(entries) - 1) : entries[i].price <= entries[i + 1].price

\* C1: in every result returned by update, whatever the lists delivered, the
\* bids are non-increasing by price, the asks non-decreasing, and both lists
\* have at most top_n entries.
C1_SortedAndCapped ==
    /\ NonIncreasing(result.bids)
    /\ NonDecreasing(result.asks)
    /\ Len(result.bids) <= top_n
    /\ Len(result.asks) <= top_n

\* C1 witness: an exchange delivered more than top_n bids in ascending order
\* and the result holds top_n bids of different prices.
C1_Witness ==
    \E e \in Exchanges :
        /\ delivered[e] # << >>
        /\ Len(delivered[e][1].bids) > top_n
        /\ delivered[e][1].bids[1].price < delivered[e][1].bids[2].price
        /\ Len(result.bids) = top_n
        /\ result.bids[1].price > result.bids[top_n].price

\* The entry x of a merged list is one of the given levels of its exchange.
IsLevelOf(x, levels) ==
    \E i \in 1..Len(levels) : levels[i].price = x.price /\ levels[i].amount = x.amount

\* C2: the lists stored for an exchange are exactly those of its last update,
\* empty ones included, and every merged entry of that exchange is a level of
\* that last update: nothing of an earlier update is left.
C2_Replacement ==
    \A e \in Exchanges :
        IF delivered[e] = << >>
        THEN /\ e \notin DOMAIN latest_bids
             /\ e \notin DOMAIN latest_asks
             /\ \A i \in 1..Len(result.bids) : result.bids[i].exchange # e
             /\ \A i \in 1..Len(result.asks) : result.asks[i].exchange # e
        ELSE /\ e \in DOMAIN latest_bids
             /\ e \in DOMAIN latest_asks
             /\ latest_bids[e] = delivered[e][1].bids
             /\ latest_asks[e] = delivered[e][1].asks
             /\ \A i \in 1..Len(result.bids) :
                    result.bids[i].exchange = e => IsLevelOf(result.bids[i], delivered[e][1].bids)
             /\ \A i \in 1..Len(result.asks) :
                    result.asks[i].exchange = e => IsLevelOf(result.asks[i], delivered[e][1].asks)

\* C2 witness: the last update replaced different lists of its exchange, its
\* bid list is empty, and the merged bids come from the other exchange.
C2_Witness ==
    \E e \in Exchanges :
        /\ replaced
        /\ delivered[e] # << >>
        /\ delivered[e][1].bids = << >>
        /\ delivered[e][1].asks # << >>
        /\ result.bids # << >>
        /\ result.asks[1].exchange = e

\* C3: the spread is present exactly when both merged lists are non-empty, and
\* is then the price of the first ask minus the price of the first bid, also
\* when that is negative.
C3_Spread ==
    /\ (result.spread # << >>) <=> (result.asks # << >> /\ result.bids # << >>)
    /\ result.spread # << >> =>
           result.spread = <<result.asks[1].price - result.bids[1].price>>

\* C3 witness: a crossed book, the spread is negative.
C3_Witness ==
    /\ result.spread # << >>
    /\ result.spread[1] < 0
    /\ result.asks[1].exchange # result.bids[1].exchange

\* The number of entries of a merged list at a price at least / at most v.
CountAtLeast(entries, v) == Cardinality({i \in 1..Len(entries) : entries[i].price >= v})
CountAtMost(entries, v) == Cardinality({i \in 1..Len(entries) : entries[i].price <= v})

\* The positions <<exchange, index>> of all levels stored in a map.
StoredPositions(map) ==
    UNION {{<<e, i>> : i \in 1..Len(map[e])} : e \in DOMAIN map}

StoredBidsAtLeast(v) ==
    Cardinality({p \in StoredPositions(latest_bids) : latest_bids[p[1]][p[2]].price >= v})

StoredAsksAtMost(v) ==
    Cardinality({p \in StoredPositions(latest_asks) : latest_asks[p[1]][p[2]].price <= v})

StoredSorted ==
    /\ \A e \in DOMAIN latest_bids : NonIncreasing(latest_bids[e])
    /\ \A e \in DOMAIN latest_asks : NonDecreasing(latest_asks[e])

\* C4: when the lists delivered are sorted (bids descending, asks ascending),
\* the merged bid prices are the top_n highest of all stored bid prices in
\* descending order, and the merged ask prices the top_n lowest of all stored
\* ask prices in ascending order: at every price v the merged list holds as
\* many entries at v or better as are stored, up to top_n.
C4_GlobalTopN ==
    StoredSorted =>
        /\ NonIncreasing(result.bids)
        /\ NonDecreasing(result.asks)
        /\ \A v \in 1..MaxPrice :
               /\ CountAtLeast(result.bids, v) = Min(top_n, StoredBidsAtLeast(v))
               /\ CountAtMost(result.asks, v) = Min(top_n, StoredAsksAtMost(v))

\* C4 witness: sorted lists, one exchange stores more than top_n bids, and its
\* second bid is displaced by a better bid of the other exchange.
C4_Witness ==
    /\ StoredSorted
    /\ \E e \in DOMAIN latest_bids, f \in DOMAIN latest_bids :
        /\ e # f
        /\ Len(latest_bids[e]) > top_n
        /\ latest_bids[f] # << >>
        /\ latest_bids[f][1].price > latest_bids[e][2].price
        /\ Len(result.bids) = top_n
        /\ \E i \in 1..top_n : result.bids[i].exchange = f
        /\ \E i \in 1..top_n : result.bids[i].exchange = e

\* The entries of a working list that carry the tag of exchange e, in order.
EntriesOf(entries, e) == SelectSeq(entries, LAMBDA x : x.exchange = e)

\* The first n levels of a stored list, as entries of exchange e.
FirstOf(levels, e, n) ==
    [i \in 1..(IF Len(levels) < n THEN Len(levels) ELSE n) |->
        [exchange |-> e, price |-> levels[i].price, amount |-> levels[i].amount]]

\* C12: in every call of update, the working list of each side holds, of each
\* known exchange, the first top_n levels of its stored list and no more,
\* however many levels the exchange delivered; so it never has more than
\* (number of known exchanges) x top_n entries.
C12_PerSourceCap ==
    /\ \A e \in DOMAIN latest_bids :
        /\ EntriesOf(all_bids, e) = FirstOf(latest_bids[e], e, top_n)
        /\ Len(EntriesOf(all_bids, e)) <= top_n
    /\ \A e \in DOMAIN latest_asks :
        /\ EntriesOf(all_asks, e) = FirstOf(latest_asks[e], e, top_n)
        /\ Len(EntriesOf(all_asks, e)) <= top_n
    /\ Len(all_bids) <= Cardinality(DOMAIN latest_bids) * top_n
    /\ Len(all_asks) <= Cardinality(DOMAIN latest_asks) * top_n
    /\ \A i \in 1..Len(all_bids) : all_bids[i].exchange \in DOMAIN latest_bids
    /\ \A i \in 1..Len(all_asks) : all_asks[i].exchange \in DOMAIN latest_asks

\* C12 witness: an exchange stores more than top_n bids, the other stores
\* top_n, and the working list holds top_n of each.
C12_Witness ==
    \E e \in DOMAIN latest_bids, f \in DOMAIN latest_bids :
        /\ e # f
        /\ Len(latest_bids[e]) > top_n
        /\ Len(latest_bids[f]) = top_n
        /\ Len(all_bids) = 2 * top_n

\* C13: a call of update for one exchange leaves the stored bid list and ask
\* list of every other known exchange as they are and removes no exchange: the
\* known exchanges after the call are those before it and the one updated.
C13_Frame ==
    [][\E s \in Exchanges :
          /\ delivered'[s] # << >>
          /\ \A e \in Exchanges \ {s} : delivered'[e] = delivered[e]
          /\ DOMAIN latest_bids' = DOMAIN latest_bids \cup {s}
          /\ DOMAIN latest_asks' = DOMAIN latest_asks \cup {s}
          /\ \A e \in DOMAIN latest_bids \ {s} : latest_bids'[e] = latest_bids[e]
          /\ \A e \in DOMAIN latest_asks \ {s} : latest_asks'[e] = latest_asks[e]]_vars

\* C13 witness: both exchanges store bids and asks, and the last call of update
\* replaced the lists of one of them by different ones.
C13_Witness ==
    /\ replaced
    /\ DOMAIN latest_bids = Exchanges
    /\ \A e \in Exchanges : latest_bids[e] # << >> /\ latest_asks[e] # << >>

\* The positions in the merged list of the entry at position k of the working
\* list (the entries of a working list differ in exchange or amount).
MergedAt(merged, all, k) == {i \in 1..Len(merged) : merged[i] = all[k]}

\* Of two entries of equal price, the one that was earlier in the working list
\* is in the merged list whenever the later one is, and stands before it.
TiesKeepOrder(merged, all) ==
    \A k \in 1..Len(all), l \in 1..Len(all) :
        (k < l /\ all[k].price = all[l].price) =>
            \A j \in MergedAt(merged, all, l) :
                \E i \in MergedAt(merged, all, k) : i < j

\* Two entries of one exchange with equal price stand in the merged list in
\* the order of the stored list of the exchange.
SameSourceTies(merged, latest) ==
    \A i \in 1..Len(merged), j \in 1..Len(merged) :
        (/\ i < j
         /\ merged[i].exchange = merged[j].exchange
         /\ merged[i].price = merged[j].price) =>
            \E a \in 1..Len(latest[merged[i].exchange]),
               b \in 1..Len(latest[merged[i].exchange]) :
                /\ a < b
                /\ latest[merged[i].exchange][a].amount = merged[i].amount
                /\ latest[merged[i].exchange][b].amount = merged[j].amount

\* C16: entries of equal price keep in the merged list the order in which they
\* were put in the working list, also across the cut to top_n; so two entries
\* of one exchange with equal price keep the order of its stored list.
C16_TieStability ==
    /\ TiesKeepOrder(result.bids, all_bids)
    /\ TiesKeepOrder(result.asks, all_asks)
    /\ SameSourceTies(result.bids, latest_bids)
    /\ SameSourceTies(result.asks, latest_asks)

\* C16 witness: the working list holds three bids of one price, of both
\* exchanges, and the merged list the first two of them, of one exchange.
C16_Witness ==
    /\ Len(all_bids) >= 3
    /\ all_bids[1].price = all_bids[2].price
    /\ all_bids[2].price = all_bids[3].price
    /\ all_bids[1].exchange = all_bids[2].exchange
    /\ all_bids[3].exchange # all_bids[1].exchange
    /\ result.bids = <<all_bids[1], all_bids[2]>>

\* The number of entries of a merged list equal to x.
Occurrences(merged, x) == Cardinality({i \in 1..Len(merged) : merged[i] = x})

\* The number of levels with the price and amount of x among the first n
\* levels of a stored list.
StoredOccurrences(levels, x, n) ==
    Cardinality({i \in 1..Len(levels) :
                    i <= n /\ levels[i].price = x.price /\ levels[i].amount = x.amount})

\* Every entry of the merged list is a level among the first top_n of the
\* stored list of the exchange it names, as often at most as it is there.
Provenance(merged, latest) ==
    \A i \in 1..Len(merged) :
        /\ merged[i].exchange \in DOMAIN latest
        /\ StoredOccurrences(latest[merged[i].exchange], merged[i], top_n) >= 1
        /\ Occurrences(merged, merged[i]) <=
               StoredOccurrences(latest[merged[i].exchange], merged[i], top_n)

\* C18: every entry of a merged list returned by update has the tag, price and
\* amount of a level that is then among the first top_n levels of the stored
\* list of that exchange on that side, and is in the merged list no more often
\* than it is there: no entry is made up or given to another exchange.
C18_Provenance ==
    /\ Provenance(result.bids, latest_bids)
    /\ Provenance(result.asks, latest_asks)

\* C18 witness: the merged bids come from both exchanges, and a stored bid
\* beyond the first top_n of its exchange, better than the last merged bid, is
\* left out.
C18_Witness ==
    \E e \in DOMAIN latest_bids :
        /\ Len(latest_bids[e]) > top_n
        /\ Len(result.bids) = top_n
        /\ latest_bids[e][top_n + 1].price > result.bids[top_n].price
        /\ result.bids[1].exchange # result.bids[top_n].exchange

\* ------------------------------------------------------- the connectors
\* The failure branch of begin's loop: the error is logged and the task goes
\* to sleep(2 s).
AttemptEnds(c) ==
    /\ pc' = [pc EXCEPT ![c] = "sleep"]
    /\ timer' = [timer EXCEPT ![c] = 0]
    /\ pending' = [pending EXCEPT ![c] = << >>]
    /\ subscribed' = [subscribed EXCEPT ![c] = FALSE]

\* Mutant of ConnectOk: the read loop is entered right after the connection.
ConnectOk_nosubscribe(c) ==
    /\ pc[c] = "connect"
    /\ pc' = [pc EXCEPT ![c] = "read"]
    /\ timer' = [timer EXCEPT ![c] = 0]
    /\ UNCHANGED <<pending, failed_on, subscribed, engine_vars, channel, pushed, main_vars>>

\* ClientBuilder::connect succeeds; Bitstamp goes on to subscribe.
ConnectOk(c) ==
    /\ pc[c] = "connect"
    /\ pc' = [pc EXCEPT ![c] = IF c = "bitstamp" THEN "subscribe" ELSE "read"]
    /\ timer' = [timer EXCEPT ![c] = 0]
    /\ UNCHANGED <<pending, failed_on, subscribed, engine_vars, channel, pushed, main_vars>>

\* The URI does not parse or the connection is not established.
ConnectFail(c) ==
    /\ pc[c] = "connect"
    /\ AttemptEnds(c)
    /\ UNCHANGED <<failed_on, engine_vars, channel, pushed, main_vars>>

\* client.send(Message::text(connect_msg)) succeeds.
SubscribeOk(c) ==
    /\ pc[c] = "subscribe"
    /\ pc' = [pc EXCEPT ![c] = "read"]
    /\ timer' = [timer EXCEPT ![c] = 0]
    /\ subscribed' = [subscribed EXCEPT ![c] = TRUE]
    /\ UNCHANGED <<pending, failed_on, engine_vars, channel, pushed, main_vars>>

SubscribeFail(c) ==
    /\ pc[c] = "subscribe"
    /\ AttemptEnds(c)
    /\ UNCHANGED <<failed_on, engine_vars, channel, pushed, main_vars>>

\* Time in the read loop: timer[c] = IdleTimeout says that the 15 s of
\* timeout(.., client.next()) have passed and the stream has yielded nothing;
\* whatever the stream yields, it yields before that.
\* No message arrives for the rest of the 15 s.
IdleWait(c) ==
    /\ pc[c] = "read"
    /\ timer[c] < IdleTimeout
    /\ timer' = [timer EXCEPT ![c] = IdleTimeout]
    /\ UNCHANGED <<pc, pending, failed_on, subscribed, engine_vars, channel, pushed, main_vars>>

\* Mutant of IdleTimeoutElapsed: the timeout is swallowed and the loop waits again.
IdleTimeoutElapsed_ignored(c) ==
    /\ pc[c] = "read"
    /\ timer[c] = IdleTimeout
    /\ timer' = [timer EXCEPT ![c] = 0]
    /\ UNCHANGED <<pc, pending, failed_on, subscribed, engine_vars, channel, pushed, main_vars>>

\* timeout(..).await? is Err(Elapsed).
IdleTimeoutElapsed(c) ==
    /\ pc[c] = "read"
    /\ timer[c] = IdleTimeout
    /\ AttemptEnds(c)
    /\ UNCHANGED <<failed_on, engine_vars, channel, pushed, main_vars>>

\* client.next() is None: the loop ends and connect returns Ok(()).
StreamEnds(c) ==
    /\ pc[c] = "read"
    /\ timer[c] < IdleTimeout
    /\ AttemptEnds(c)
    /\ UNCHANGED <<failed_on, engine_vars, channel, pushed, main_vars>>

\* res? is Err: a transport error.
TransportError(c) ==
    /\ pc[c] = "read"
    /\ timer[c] < IdleTimeout
    /\ AttemptEnds(c)
    /\ UNCHANGED <<failed_on, engine_vars, channel, pushed, main_vars>>

\* as_text() is None (a binary, ping, pong or close frame): next iteration.
ReceiveOther(c) ==
    /\ pc[c] = "read"
    /\ timer[c] < IdleTimeout
    /\ timer' = [timer EXCEPT ![c] = 0]
    /\ UNCHANGED <<pc, pending, failed_on, subscribed, engine_vars, channel, pushed, main_vars>>

\* Mutant of Decoded: a text that is no message of the schema is skipped like
\* an acknowledgment (a catch-all variant).
Decoded_lenient(c, m) ==
    IF m.kind = "data" THEN "data" ELSE "subscribed"

\* serde_json::from_str::<BinanceMsg> / ::<BitstampMessage>: what the text
\* decodes to for this connector.
Decoded(c, m) ==
    IF m.kind = "data" THEN "data"
    ELSE IF m.kind = "subscription_succeeded" /\ c = "bitstamp" THEN "subscribed"
    ELSE "error"

\* parse_data(msg.bids, msg.asks, "binance") / (data.bids, data.asks, "bitstamp"),
\* for every connector and text message.
ParsedTexts ==
    [c \in Exchanges |-> [m \in TextMessages |-> parse_data(m.bids, m.asks, c)]]

\* A text message arrives: it is decoded and, when it is a data message,
\* parsed; the update is then held by sender.send(update).
ReceiveText(c, m) ==
    /\ pc[c] = "read"
    /\ timer[c] < IdleTimeout
    /\ \E d \in {Decoded(c, m)}, u \in {ParsedTexts[c][m]} :
        \/ /\ d = "subscribed"
           /\ timer' = [timer EXCEPT ![c] = 0]
           /\ UNCHANGED <<pc, pending, failed_on, subscribed>>
        \/ /\ d = "error" \/ (d = "data" /\ u = << >>)
           /\ AttemptEnds(c)
           /\ failed_on' = [failed_on EXCEPT ![c] = <<m>>]
        \/ /\ d = "data"
           /\ u # << >>
           /\ pushed[c] < MaxPushes
           /\ pc' = [pc EXCEPT ![c] = "send"]
           /\ pending' = [pending EXCEPT ![c] = <<[update |-> u[1], text |-> m]>>]
           /\ UNCHANGED <<timer, failed_on, subscribed>>
    /\ UNCHANGED <<engine_vars, channel, pushed, main_vars>>

\* Mutant of Send: the update goes to the front of the channel.
Send_front(c) ==
    /\ pc[c] = "send"
    /\ Len(channel) < ChannelCapacity
    /\ channel' = <<[update |-> pending[c][1].update,
                     text |-> pending[c][1].text,
                     seq |-> pushed[c] + 1]>> \o channel
    /\ pushed' = [pushed EXCEPT ![c] = @ + 1]
    /\ pc' = [pc EXCEPT ![c] = "read"]
    /\ timer' = [timer EXCEPT ![c] = 0]
    /\ pending' = [pending EXCEPT ![c] = << >>]
    /\ UNCHANGED <<failed_on, subscribed, engine_vars, main_vars>>

\* Mutant of Send: a send that finds the channel full drops the update
\* (try_send) and the loop goes on.
Send_lossy(c) ==
    /\ pc[c] = "send"
    /\ channel' = IF Len(channel) < ChannelCapacity
                  THEN Append(channel,
                              [update |-> pending[c][1].update,
                               text |-> pending[c][1].text,
                               seq |-> pushed[c] + 1])
                  ELSE channel
    /\ pushed' = [pushed EXCEPT ![c] = @ + 1]
    /\ pc' = [pc EXCEPT ![c] = "read"]
    /\ timer' = [timer EXCEPT ![c] = 0]
    /\ pending' = [pending EXCEPT ![c] = << >>]
    /\ UNCHANGED <<failed_on, subscribed, engine_vars, main_vars>>

\* Mutant of Send: a send that finds the channel full fails (try_send with ?)
\* and ends the attempt.
Send_try(c) ==
    /\ pc[c] = "send"
    /\ IF Len(channel) < ChannelCapacity
       THEN /\ channel' = Append(channel,
                                 [update |-> pending[c][1].update,
                                  text |-> pending[c][1].text,
                                  seq |-> pushed[c] + 1])
            /\ pushed' = [pushed EXCEPT ![c] = @ + 1]
            /\ pc' = [pc EXCEPT ![c] = "read"]
            /\ timer' = [timer EXCEPT ![c] = 0]
            /\ pending' = [pending EXCEPT ![c] = << >>]
            /\ UNCHANGED subscribed
       ELSE /\ AttemptEnds(c)
            /\ UNCHANGED <<channel, pushed>>
    /\ UNCHANGED <<failed_on, engine_vars, main_vars>>

\* sender.send(update).await completes once the channel has room; the loop
\* goes on to wait for the next message.
Send(c) ==
    /\ pc[c] = "send"
    /\ Len(channel) < ChannelCapacity
    /\ channel' = Append(channel,
                         [update |-> pending[c][1].update,
                          text |-> pending[c][1].text,
                          seq |-> pushed[c] + 1])
    /\ pushed' = [pushed EXCEPT ![c] = @ + 1]
    /\ pc' = [pc EXCEPT ![c] = "read"]
    /\ timer' = [timer EXCEPT ![c] = 0]
    /\ pending' = [pending EXCEPT ![c] = << >>]
    /\ UNCHANGED <<failed_on, subscribed, engine_vars, main_vars>>

\* The 2 s of sleep(Duration::from_secs(2)) pass.
SleepWait(c) ==
    /\ pc[c] = "sleep"
    /\ timer[c] < Backoff
    /\ timer' = [timer EXCEPT ![c] = Backoff]
    /\ UNCHANGED <<pc, pending, failed_on, subscribed, engine_vars, channel, pushed, main_vars>>

\* Mutant of Reconnect: connect is called again before the sleep is over.
Reconnect_early(c) ==
    /\ pc[c] = "sleep"
    /\ pc' = [pc EXCEPT ![c] = "connect"]
    /\ timer' = [timer EXCEPT ![c] = 0]
    /\ failed_on' = [failed_on EXCEPT ![c] = << >>]
    /\ UNCHANGED <<pending, subscribed, engine_vars, channel, pushed, main_vars>>

\* The sleep is over: the loop calls connect again.
Reconnect(c) ==
    /\ pc[c] = "sleep"
    /\ timer[c] = Backoff
    /\ pc' = [pc EXCEPT ![c] = "connect"]
    /\ timer' = [timer EXCEPT ![c] = 0]
    /\ failed_on' = [failed_on EXCEPT ![c] = << >>]
    /\ UNCHANGED <<pending, subscribed, engine_vars, channel, pushed, main_vars>>

\* ------------------------------------------------------ the consumer loop
\* Mutant of Consume: the loop drains the channel and merges only the newest
\* update.
Consume_coalesce ==
    /\ channel # << >>
    /\ Merge(channel[Len(channel)].update)
    /\ channel' = << >>
    /\ consumed' = [c \in Exchanges |->
           consumed[c] + Cardinality({i \in 1..Len(channel) : channel[i].update.exchange = c})]
    /\ emitted' = emitted + 1
    /\ output' = normalize(result', PricePlaces, AmountPlaces, SpreadPlaces)
    /\ places' = <<<<PricePlaces, AmountPlaces, SpreadPlaces>>>>
    /\ UNCHANGED <<conn_vars, pushed>>

\* One iteration of main's loop: receiver.recv() gives the oldest update,
\* which is merged; the result is normalized and printed.
Consume ==
    /\ channel # << >>
    /\ Merge(Head(channel).update)
    /\ channel' = Tail(channel)
    /\ consumed' = [consumed EXCEPT ![Head(channel).update.exchange] = @ + 1]
    /\ emitted' = emitted + 1
    /\ output' = normalize(result', PricePlaces, AmountPlaces, SpreadPlaces)
    /\ places' = <<<<PricePlaces, AmountPlaces, SpreadPlaces>>>>
    /\ UNCHANGED <<conn_vars, pushed>>

\* main: the two connectors are started and the book is built with top_n 10.
SysInit ==
    /\ top_n = MainTopN
    /\ EngineInit
    /\ ConnInit

ConnectorStep(c) ==
    \/ ConnectOk(c)
    \/ ConnectFail(c)
    \/ SubscribeOk(c)
    \/ SubscribeFail(c)
    \/ IdleWait(c)
    \/ IdleTimeoutElapsed(c)
    \/ StreamEnds(c)
    \/ TransportError(c)
    \/ ReceiveOther(c)
    \/ \E m \in TextMessages : ReceiveText(c, m)
    \/ Send(c)
    \/ SleepWait(c)
    \/ Reconnect(c)

SysNext ==
    \/ \E c \in Exchanges : ConnectorStep(c)
    \/ Consume

SysSpec == SysInit /\ [][SysNext]_vars
\* ======================================================================
\* Properties of the connectors, the channel and the consumer loop
\* (checked under SysSpec)
\* ======================================================================
Stages == {"connect", "subscribe", "read", "send", "sleep"}

\* The connector can take a step, or is suspended in a send on the full channel.
NotTerminal(c) ==
    /\ pc[c] \in Stages
    /\ \/ ENABLED ConnectorStep(c)
       \/ pc[c] = "send" /\ Len(channel) = ChannelCapacity

\* From a stage, a connector either goes on within the attempt or goes to
\* sleep with the whole backoff ahead; connect is entered only from a sleep
\* that has lasted the backoff.
RestartStep(c) ==
    /\ pc'[c] # pc[c] =>
        \/ pc[c] = "connect" /\ pc'[c] \in {"subscribe", "read", "sleep"}
        \/ pc[c] = "subscribe" /\ pc'[c] \in {"read", "sleep"}
        \/ pc[c] = "read" /\ pc'[c] \in {"send", "sleep"}
        \/ pc[c] = "send" /\ pc'[c] \in {"read", "sleep"}
        \/ pc[c] = "sleep" /\ pc'[c] = "connect"
    /\ (pc'[c] # pc[c] /\ pc'[c] = "sleep") => timer'[c] = 0
    /\ (pc'[c] # pc[c] /\ pc'[c] = "connect") => (pc[c] = "sleep" /\ timer[c] = Backoff)

\* C5: a connector has no terminal state; when an attempt ends, for whatever
\* reason, the connector goes to sleep for the 2 s backoff, from which the only
\* way on is a new connect, never disabled; and a new attempt never starts but
\* from a sleep that lasted the whole backoff.
C5_RestartForever ==
    /\ [](\A c \in Exchanges : NotTerminal(c))
    /\ [][\A c \in Exchanges : RestartStep(c)]_vars
    /\ [](\A c \in Exchanges :
            /\ (pc[c] = "sleep" /\ timer[c] < Backoff) => ENABLED SleepWait(c)
            /\ (pc[c] = "sleep" /\ timer[c] = Backoff) => ENABLED Reconnect(c))

\* C5 witness: a connector that has pushed its updates, lost the connection
\* and slept is about to connect again, while the other is asleep after a
\* failed decode.
C5_Witness ==
    \E c \in Exchanges, d \in Exchanges :
        /\ c # d
        /\ pc[c] = "sleep" /\ timer[c] = Backoff /\ pushed[c] = MaxPushes
        /\ pc[d] = "sleep" /\ failed_on[d] # << >>

\* A text is a decimal number: an optional sign, digits, at most one point.
NumericText(t) ==
    LET b == IF t # << >> /\ t[1] \in {"+", "-"} THEN Tail(t) ELSE t
    IN  /\ \A i \in 1..Len(b) : b[i] \in {"0", "1", "2", "3", "4", "5", "6", "7", "8", "9", "."}
        /\ \E i \in 1..Len(b) : b[i] # "."
        /\ Cardinality({i \in 1..Len(b) : b[i] = "."}) <= 1

AllNumeric(m) ==
    /\ \A i \in 1..Len(m.bids) : NumericText(m.bids[i][1]) /\ NumericText(m.bids[i][2])
    /\ \A i \in 1..Len(m.asks) : NumericText(m.asks[i][1]) /\ NumericText(m.asks[i][2])

\* The update was decoded from a data message all of whose texts are numbers,
\* level by level.
WholeUpdate(x) ==
    /\ x.text.kind = "data"
    /\ AllNumeric(x.text)
    /\ Len(x.update.bids) = Len(x.text.bids)
    /\ Len(x.update.asks) = Len(x.text.asks)

\* The step in which connector c reads a data message with a text that is no
\* number.
ReadsMalformed(c) ==
    /\ failed_on'[c] # failed_on[c]
    /\ failed_on'[c] # << >>
    /\ failed_on'[c][1].kind = "data"

\* C6: a data message with a price or amount text that is no decimal number
\* yields no update, not even of its valid levels: nothing is sent for it, the
\* attempt ends in the backoff sleep, and the merge engine is left as it is.
C6_MalformedDropped ==
    /\ [](/\ \A i \in 1..Len(channel) : WholeUpdate(channel[i])
          /\ \A c \in Exchanges :
                /\ pending[c] # << >> => WholeUpdate(pending[c][1])
                /\ failed_on[c] # << >> =>
                      /\ pc[c] = "sleep"
                      /\ failed_on[c][1].kind = "data" => ~AllNumeric(failed_on[c][1]))
    /\ [][\A c \in Exchanges :
            ReadsMalformed(c) =>
                /\ pc[c] = "read" /\ pc'[c] = "sleep" /\ timer'[c] = 0
                /\ pending'[c] = << >>
                /\ UNCHANGED <<channel, pushed, engine_vars, main_vars>>]_vars

\* C6 witness: a connector asleep after a data message whose first bid is
\* valid and whose second bid has no amount, with snapshots of both exchanges
\* stored in the engine.
C6_Witness ==
    \E c \in Exchanges :
        /\ pc[c] = "sleep"
        /\ failed_on[c] # << >>
        /\ failed_on[c][1].kind = "data"
        /\ Len(failed_on[c][1].bids) = 2
        /\ NumericText(failed_on[c][1].bids[1][1])
        /\ NumericText(failed_on[c][1].bids[1][2])
        /\ DOMAIN latest_bids = Exchanges
        /\ channel # << >>

\* The positions in the channel of the updates of connector c.
InChannel(c) == {i \in 1..Len(channel) : channel[i].update.exchange = c}

RECURSIVE Total(_, _)
Total(f, S) ==
    IF S = {} THEN 0
    ELSE LET x == CHOOSE y \in S : TRUE IN f[x] + Total(f, S \ {x})

\* C7: every update sent is received by the consumer loop exactly once and
\* gives exactly one printed result: the updates of a connector that are in
\* the channel are those sent and not yet received, each once, and the number
\* of results printed is the number of updates received.
C7_ExactlyOnce ==
    /\ emitted = Total(consumed, Exchanges)
    /\ \A c \in Exchanges :
        /\ consumed[c] <= pushed[c]
        /\ {channel[i].seq : i \in InChannel(c)} = (consumed[c] + 1)..pushed[c]
        /\ Cardinality(InChannel(c)) = pushed[c] - consumed[c]
    /\ emitted > 0 =>
        /\ Len(output.bids) = Len(result.bids)
        /\ Len(output.asks) = Len(result.asks)
        /\ \E c \in Exchanges : delivered[c] # << >>

\* C7 witness: every connector has sent MaxPushes updates and all of them have
\* been received and printed.
C7_Witness ==
    /\ \A c \in Exchanges : consumed[c] = MaxPushes
    /\ emitted = 2 * MaxPushes
    /\ channel = << >>

\* C8: the updates of one connector are received in the order in which it read
\* them (their order in the channel is the order of sending, whatever the
\* other connector sends in between), so the lists stored for an exchange are
\* those of its update received last.
C8_PerSourceOrder ==
    \A c \in Exchanges :
        /\ \A i \in InChannel(c), j \in InChannel(c) :
               i < j => channel[i].seq < channel[j].seq
        /\ \A i \in InChannel(c) :
               channel[i].seq = consumed[c] + Cardinality({j \in InChannel(c) : j <= i})
        /\ consumed[c] = 0 => delivered[c] = << >> /\ c \notin DOMAIN latest_bids
        /\ consumed[c] > 0 =>
               /\ delivered[c] # << >>
               /\ latest_bids[c] = delivered[c][1].bids
               /\ latest_asks[c] = delivered[c][1].asks

\* C8 witness: the channel holds two different updates of one connector, which
\* is in a later attempt, after updates of the other were received.
C8_Witness ==
    \E c \in Exchanges, d \in Exchanges :
        /\ c # d
        /\ Len(channel) = 2
        /\ InChannel(c) = {1, 2}
        /\ channel[1].update # channel[2].update
        /\ pc[c] = "connect"
        /\ consumed[d] > 0

\* C9: a connector never waits for a message longer than the 15 s idle
\* timeout, and when the 15 s have passed without a message the attempt ends
\* in the backoff sleep.
C9_IdleTimeout ==
    /\ [](\A c \in Exchanges : pc[c] = "read" => timer[c] <= IdleTimeout)
    /\ [][\A c \in Exchanges :
            (pc[c] = "read" /\ timer[c] = IdleTimeout /\ timer'[c] # timer[c]) =>
                (pc'[c] = "sleep" /\ timer'[c] = 0)]_vars
    /\ [](\A c \in Exchanges :
            (pc[c] = "read" /\ timer[c] = IdleTimeout) => ENABLED IdleTimeoutElapsed(c))

\* C9 witness: a connector has waited the 15 s in the read loop after it
\* pushed an update.
C9_Witness ==
    \E c \in Exchanges :
        pc[c] = "read" /\ timer[c] = IdleTimeout /\ pushed[c] > 0

\* C10: the channel never holds more updates than its capacity, and a
\* connector whose send finds it full stays suspended with its update until
\* the consumer has made room; the update is then appended, not dropped, and
\* the attempt goes on.
C10_Backpressure ==
    /\ [](Len(channel) <= ChannelCapacity)
    /\ [][\A c \in Exchanges :
            pc[c] = "send" =>
                /\ Len(channel) = ChannelCapacity /\ Len(channel') = ChannelCapacity =>
                       (pc'[c] = "send" /\ pending'[c] = pending[c])
                /\ pc'[c] # "send" =>
                       /\ pc'[c] = "read"
                       /\ Len(channel) < ChannelCapacity
                       /\ channel' = Append(channel,
                                            [update |-> pending[c][1].update,
                                             text |-> pending[c][1].text,
                                             seq |-> pushed[c] + 1])]_vars

\* C10 witness: the channel is full and both connectors are suspended in send.
C10_Witness ==
    /\ Len(channel) = ChannelCapacity
    /\ \A c \in Exchanges : pc[c] = "send" /\ pending[c] # << >>

\* A message that is no data message arrives at connector c: a text message
\* that is none, or a frame that is no text.
ReceivesNonData(c) ==
    \/ ReceiveOther(c)
    \/ \E m \in OtherMessages : ReceiveText(c, m)

\* The connector goes on reading on the same connection and nothing is sent.
Ignored(c) ==
    /\ pc[c] = "read" /\ pc'[c] = "read"
    /\ UNCHANGED <<channel, pushed, pending, subscribed, failed_on>>

\* C14 as claimed: every message that is no data message is ignored by every
\* connector: it stays in the read loop, sends nothing and keeps the connection.
C14_NonDataIgnored ==
    [][\A c \in Exchanges : ReceivesNonData(c) => Ignored(c)]_vars

\* The text messages that are no data messages and that connector c knows.
Recognized(c, m) == c = "bitstamp" /\ m.kind = "subscription_succeeded"

\* C14 as amended: a frame that is no text, and for Bitstamp the subscription
\* acknowledgment, is ignored: the connector stays in the read loop, sends
\* nothing and keeps the connection, and no attempt ever ends on such a
\* message. Any other text that is no data message (for Binance every such
\* text, an acknowledgment included) is a decode error: nothing is sent and the
\* attempt ends in the backoff sleep.
C14_RecognizedIgnored ==
    /\ [][\A c \in Exchanges :
            /\ ReceiveOther(c) => Ignored(c)
            /\ \A m \in OtherMessages :
                  ReceiveText(c, m) =>
                      IF Recognized(c, m)
                      THEN Ignored(c)
                      ELSE /\ pc[c] = "read" /\ pc'[c] = "sleep" /\ timer'[c] = 0
                           /\ failed_on'[c] = <<m>>
                           /\ UNCHANGED <<channel, pushed>>]_vars
    /\ [](\A c \in Exchanges :
            failed_on[c] # << >> => (pc[c] = "sleep" /\ ~Recognized(c, failed_on[c][1])))
    /\ [](\A c \in Exchanges : \A m \in OtherMessages :
            (pc[c] = "read" /\ timer[c] < IdleTimeout) =>
                IF Recognized(c, m)
                THEN ENABLED (ReceiveText(c, m) /\ pc'[c] = "read")
                ELSE ENABLED (ReceiveText(c, m) /\ pc'[c] = "sleep"))

\* C14 witness: Binance is asleep after an acknowledgment ended its attempt,
\* while Bitstamp, subscribed, is in its read loop after pushing an update.
C14_Witness ==
    /\ pc["binance"] = "sleep"
    /\ failed_on["binance"] # << >>
    /\ failed_on["binance"][1].kind = "subscription_succeeded"
    /\ pc["bitstamp"] = "read"
    /\ subscribed["bitstamp"]
    /\ pushed["bitstamp"] > 0

\* A step of a connector that subscribes keeps the order of the handshake.
HandshakeStep(c) ==
    /\ (pc[c] = "connect" /\ pc'[c] # "connect") => pc'[c] \in {"subscribe", "sleep"}
    /\ (pc[c] = "subscribe" /\ pc'[c] # "subscribe") =>
          \/ pc'[c] = "read" /\ subscribed'[c]
          \/ pc'[c] = "sleep" /\ ~subscribed'[c]
    /\ (subscribed'[c] /\ ~subscribed[c]) => pc[c] = "subscribe"
    /\ (pc'[c] = "read" /\ pc[c] # "read") => pc[c] \in {"subscribe", "send"}
    /\ pushed'[c] # pushed[c] => subscribed[c]

\* C15: in every attempt of Bitstamp the subscribe message is sent once the
\* connection is established and before the first read; no update is sent in
\* an attempt whose subscribe send has not succeeded, and a subscribe send
\* that fails ends the attempt.
C15_Handshake ==
    /\ [](pc["bitstamp"] \in {"read", "send"} => subscribed["bitstamp"])
    /\ [](pc["bitstamp"] \in {"connect", "subscribe", "sleep"} => ~subscribed["bitstamp"])
    /\ [][HandshakeStep("bitstamp")]_vars

\* C15 witness: Bitstamp, in a second attempt, has subscribed again and holds
\* an update to send.
C15_Witness ==
    /\ pc["bitstamp"] = "send"
    /\ subscribed["bitstamp"]
    /\ pushed["bitstamp"] > 0
    /\ pending["bitstamp"] # << >>
    /\ consumed["bitstamp"] > 0

\* ======================================================================
\* Progress of the channel (checked under FairSysSpec)
\* ======================================================================
\* receiver.recv().await returns the oldest update of the channel: what an
\* iteration of main's loop does to the channel.
Recv ==
    /\ channel # << >>
    /\ channel' = Tail(channel)

\* The consumer task is scheduled whenever recv() has an update to return, and
\* the bounded channel hands its free slots to waiting senders in the order of
\* their arrival, so a sender that finds room again and again gets a slot.
FairSysSpec ==
    /\ SysSpec
    /\ WF_channel(Recv)
    /\ \A c \in Exchanges : SF_vars(Send(c))

\* Every task is blocked: the consumer on the empty channel and every
\* connector in a send that cannot complete.
AllBlocked ==
    /\ ~ENABLED Recv
    /\ \A c \in Exchanges : pc[c] = "send" /\ ~ENABLED Send(c)

\* C20: with the consumer scheduled fairly, a connector suspended in a send
\* completes it, every update sent is received, merged and printed, and the
\* tasks are never all blocked.
C20_EventualConsumption ==
    /\ \A c \in Exchanges : \A k \in 1..MaxPushes :
            (pc[c] = "send" /\ pushed[c] = k - 1) ~> (pc[c] = "read" /\ pushed[c] = k)
    /\ \A c \in Exchanges : \A k \in 1..MaxPushes :
            (pushed[c] >= k) ~> (consumed[c] >= k /\ emitted >= k /\ delivered[c] # << >>)
    /\ [](~AllBlocked)

\* C20 witness: the channel is full, both connectors are suspended in send and
\* the consumer has printed nothing yet.
C20_Witness ==
    /\ Len(channel) = ChannelCapacity
    /\ \A c \in Exchanges : pc[c] = "send" /\ ~ENABLED Send(c)
    /\ emitted = 0

\* ======================================================================
\* UpdateResult::normalize on its own
\* ======================================================================
\* The prices and amounts of the results normalized, in units of 10^-DecScale:
\* midpoints and other values for several place counts.
NormValues == <<5, 15, 125, 135, 1500>>

\* The entry of a merged list at position i with the k-th value as price.
NormEntry(i, k) ==
    [exchange |-> IF i % 2 = 1 THEN "binance" ELSE "bitstamp",
     price |-> NormValues[k],
     amount |-> NormValues[Len(NormValues) + 1 - k]]

\* The merged ask lists (ascending by price) and bid lists (descending).
NormAsks ==
    {[i \in 1..Len(ks) |-> NormEntry(i, ks[i])] :
        ks \in {q \in UNION {[1..n -> 1..Len(NormValues)] : n \in 0..MaxEntries} :
                    \A i \in 1..(Len(q) - 1) : q[i] <= q[i + 1]}}

NormBids ==
    {[i \in 1..Len(ks) |-> NormEntry(i, ks[i])] :
        ks \in {q \in UNION {[1..n -> 1..Len(NormValues)] : n \in 0..MaxEntries} :
                    \A i \in 1..(Len(q) - 1) : q[i] >= q[i + 1]}}

\* The results of update that are normalized.
NormInputs == {UpdateResult(a, b) : a \in NormAsks, b \in NormBids}

NormPlaces == 0..MaxPlaces

\* let mut result = order_book.update(update): output is the result object,
\* not yet normalized.
NormInit ==
    /\ top_n = MaxEntries
    /\ latest_bids = EmptyMap
    /\ latest_asks = EmptyMap
    /\ bids_iter = << >>
    /\ asks_iter = << >>
    /\ all_bids = << >>
    /\ all_asks = << >>
    /\ delivered = [e \in Exchanges |-> << >>]
    /\ replaced = FALSE
    /\ result \in NormInputs
    /\ pc = [c \in Exchanges |-> "connect"]
    /\ timer = [c \in Exchanges |-> 0]
    /\ pending = [c \in Exchanges |-> << >>]
    /\ failed_on = [c \in Exchanges |-> << >>]
    /\ subscribed = [c \in Exchanges |-> FALSE]
    /\ channel = << >>
    /\ pushed = [c \in Exchanges |-> 0]
    /\ consumed = [c \in Exchanges |-> 0]
    /\ emitted = 0
    /\ output = result
    /\ places = << >>

\* result.normalize(p, a, s): the first call on the result of update.
Normalize(p, a, s) ==
    /\ places = << >>
    /\ output' = normalize(output, p, a, s)
    /\ places' = <<<<p, a, s>>>>
    /\ UNCHANGED <<engine_vars, conn_vars, channel, pushed, consumed, emitted>>

\* result.normalize(p, a, s) again, with the counts of the first call.
Renormalize ==
    /\ places # << >>
    /\ Len(places) < MaxCalls
    /\ output' = normalize(output, places[1][1], places[1][2], places[1][3])
    /\ places' = Append(places, places[1])
    /\ UNCHANGED <<engine_vars, conn_vars, channel, pushed, consumed, emitted>>

NormNext ==
    \/ \E p \in NormPlaces, a \in NormPlaces, s \in NormPlaces : Normalize(p, a, s)
    \/ Renormalize

NormSpec == NormInit /\ [][NormNext]_vars

\* C11: a second call of normalize with the same decimal-place counts changes
\* no price, no amount and not the spread of the already normalized result.
C11_Idempotent ==
    [][(places # << >> /\ places' # places) => output' = output]_vars

\* C11 witness: normalize was called twice and the first call had changed a
\* price, an amount and the spread.
C11_Witness ==
    /\ Len(places) = 2
    /\ output.asks # << >>
    /\ output.asks[1].price # result.asks[1].price
    /\ output.asks[1].amount # result.asks[1].amount
    /\ output.spread # << >>
    /\ output.spread # result.spread

\* The distance, doubled, between a value v and its rounding m, and the unit
\* of the last of dp fractional digits.
Twice(v, m) == 2 * (IF m < v THEN v - m ELSE m - v)
UnitOf(dp) == Pow10(DecScale - dp)

\* m is v rounded to dp fractional digits, a midpoint away from zero.
RoundedHalfUp(v, m, dp) ==
    IF dp >= DecScale THEN m = v
    ELSE /\ m % UnitOf(dp) = 0
         /\ Twice(v, m) <= UnitOf(dp)
         /\ Twice(v, m) = UnitOf(dp) => Abs(m) > Abs(v)

\* m is v rounded to dp fractional digits, a midpoint to the neighbour whose
\* last digit is even.
RoundedHalfEven(v, m, dp) ==
    IF dp >= DecScale THEN m = v
    ELSE /\ m % UnitOf(dp) = 0
         /\ Twice(v, m) <= UnitOf(dp)
         /\ Twice(v, m) = UnitOf(dp) => (m \div UnitOf(dp)) % 2 = 0

\* Every price, amount and spread of output is that of result, rounded as
\* Rounded says, to the counts of the call.
AllRounded(Rounded(_, _, _)) ==
    /\ Len(output.asks) = Len(result.asks)
    /\ Len(output.bids) = Len(result.bids)
    /\ \A i \in 1..Len(result.asks) :
        /\ Rounded(result.asks[i].price, output.asks[i].price, places[1][1])
        /\ Rounded(result.asks[i].amount, output.asks[i].amount, places[1][2])
    /\ \A i \in 1..Len(result.bids) :
        /\ Rounded(result.bids[i].price, output.bids[i].price, places[1][1])
        /\ Rounded(result.bids[i].amount, output.bids[i].amount, places[1][2])
    /\ result.spread # << >> =>
        /\ output.spread # << >>
        /\ Rounded(result.spread[1], output.spread[1], places[1][3])

\* C17 as claimed: normalize rounds every price, amount and spread to the
\* requested number of fractional digits, a value halfway between two results
\* going up in magnitude (0.125 at 2 places becomes 0.13).
C17_RoundHalfUp ==
    places # << >> => AllRounded(RoundedHalfUp)

\* C17 as amended: normalize rounds every price, amount and spread to the
\* requested number of fractional digits, a value halfway between two results
\* going to the one whose last digit is even (0.125 at 2 places becomes 0.12
\* and 0.135 becomes 0.14).
C17_RoundHalfEven ==
    places # << >> => AllRounded(RoundedHalfEven)

\* C17 witness: of two ask prices that are midpoints one was rounded down and
\* the other up, and a negative spread that is a midpoint was rounded towards
\* zero.
C17_Witness ==
    /\ places # << >>
    /\ places[1][1] < DecScale /\ places[1][3] < DecScale
    /\ \E i \in 1..Len(result.asks), j \in 1..Len(result.asks) :
        /\ Twice(result.asks[i].price, output.asks[i].price) = UnitOf(places[1][1])
        /\ output.asks[i].price < result.asks[i].price
        /\ Twice(result.asks[j].price, output.asks[j].price) = UnitOf(places[1][1])
        /\ output.asks[j].price > result.asks[j].price
    /\ result.spread # << >>
    /\ result.spread[1] < 0
    /\ Twice(result.spread[1], output.spread[1]) = UnitOf(places[1][3])
    /\ output.spread[1] > result.spread[1]

\* C19: whatever the counts, after normalize the asks are still non-decreasing
\* and the bids non-increasing by price, both lists have the length, the order
\* of entries and the tags they had (entry i is entry i, rounded), and the
\* spread is present exactly when it was before.
C19_ShapePreserved ==
    places # << >> =>
        /\ NonDecreasing(output.asks)
        /\ NonIncreasing(output.bids)
        /\ Len(output.asks) = Len(result.asks)
        /\ Len(output.bids) = Len(result.bids)
        /\ \A i \in 1..Len(result.asks) :
            /\ i <= Len(output.asks)
            /\ output.asks[i].exchange = result.asks[i].exchange
            /\ Twice(result.asks[i].price, output.asks[i].price) <= UnitOf(places[1][1])
            /\ Twice(result.asks[i].amount, output.asks[i].amount) <= UnitOf(places[1][2])
        /\ \A i \in 1..Len(result.bids) :
            /\ i <= Len(output.bids)
            /\ output.bids[i].exchange = result.bids[i].exchange
            /\ Twice(result.bids[i].price, output.bids[i].price) <= UnitOf(places[1][1])
            /\ Twice(result.bids[i].amount, output.bids[i].amount) <= UnitOf(places[1][2])
        /\ (output.spread # << >>) <=> (result.spread # << >>)

\* C19 witness: two asks of different prices have the same price after
\* normalize, as have two bids, an amount is rounded to zero, and a spread
\* that was not zero is zero.
C19_Witness ==
    /\ places # << >>
    /\ Len(output.asks) = 2 /\ Len(output.bids) = 2
    /\ result.asks[1].price < result.asks[2].price
    /\ output.asks[1].price = output.asks[2].price
    /\ result.bids[1].price > result.bids[2].price
    /\ output.bids[1].price = output.bids[2].price
    /\ output.asks[1].amount = 0 /\ result.asks[1].amount # 0
    /\ result.spread # << >> /\ result.spread # <<0>>
    /\ output.spread = <<0>>
====
